---- MODULE Spec2Model ----
(***************************************************************************)
(* A model of the pantry HTTP service of src/index.js: the four routes,    *)
(* the field validators, the data-access functions and the single          *)
(* database client whose queries complete in the order they were issued.   *)
(***************************************************************************)
EXTENDS Integers, Sequences, FiniteSets, TLC

\* at most this many queries are queued on the database client at once
MaxInFlight == 2
\* at most this many rows are ever inserted (caps the ID sequence)
MaxRows == 1

VARIABLES table, nextId, queue, last, crashed

vars == <<table, nextId, queue, last, crashed>>

(***************************************************************************)
(* JavaScript values.  A number is the fraction num/den; den = 0 is NaN.   *)
(* A string is the sequence of its characters.                             *)
(***************************************************************************)
JS(t, c, n, d) == [type |-> t, chars |-> c, num |-> n, den |-> d]

Undefined == JS("undefined", <<>>, 0, 1)

Str(s) == JS("string", s, 0, 1)

Num(n, d) == JS("number", <<>>, n, d)

NaN == JS("number", <<>>, 0, 0)

Bool(b) == JS("boolean", <<>>, IF b THEN 1 ELSE 0, 1)

\* an object carrying one numeric property (the row {count: n}, an Error)
Obj(n) == JS("object", <<>>, n, 1)

\* !v is ~Truthy(v)
Truthy(v) ==
    CASE v.type = "undefined" -> FALSE
      [] v.type = "string" -> Len(v.chars) > 0
      [] v.type = "number" -> v.den # 0 /\ v.num # 0
      [] v.type = "boolean" -> v.num # 0
      [] OTHER -> TRUE

\* a === b: same type and same value; an object only equals itself, and the
\* operands compared in this program are never the same object
StrictEquals(a, b) ==
    /\ a.type = b.type
    /\ a.type # "object"
    /\ ~(a.type = "number" /\ (a.den = 0 \/ b.den = 0))
    /\ a = b

\* quantity < 1 on a number
LessThanOne(v) == v.den # 0 /\ v.num < v.den

isNaN(v) == v.type = "number" /\ v.den = 0

Digits == {"0", "1", "2", "3", "4", "5", "6", "7", "8", "9"}

DigitChars == <<"0", "1", "2", "3", "4", "5", "6", "7", "8", "9">>

DigitVal(c) == (CHOOSE i \in 1..10 : DigitChars[i] = c) - 1

\* the value of the longest prefix of digits of s, read left to right
RECURSIVE DigitsValue(_, _)
DigitsValue(s, acc) ==
    IF s = <<>> \/ Head(s) \notin Digits THEN acc
    ELSE DigitsValue(Tail(s), 10 * acc + DigitVal(Head(s)))

\* parseInt(s): an optional sign, then the leading digits; what follows them
\* is ignored; NaN when no digit leads
parseInt(s) ==
    LET neg == s # <<>> /\ Head(s) = "-"
        rest == IF s # <<>> /\ Head(s) \in {"-", "+"} THEN Tail(s) ELSE s
    IN IF rest = <<>> \/ Head(rest) \notin Digits THEN NaN
       ELSE Num((IF neg THEN -1 ELSE 1) * DigitsValue(rest, 0), 1)

\* /\d{4}-\d{2}-\d{2}/ : "d" stands for the class \d
EXPIRATION_REGEX == <<"d", "d", "d", "d", "-", "d", "d", "-", "d", "d">>

\* the pattern matches s at offset i
MatchAt(re, s, i) ==
    /\ i + Len(re) - 1 <= Len(s)
    /\ \A k \in 1..Len(re) :
          IF re[k] = "d" THEN s[i + k - 1] \in Digits ELSE s[i + k - 1] = re[k]

\* RegExp.prototype.test: the pattern matches somewhere in s
RegexTest(re, s) == \E i \in 1..Len(s) : MatchAt(re, s, i)

(***************************************************************************)
(* The response object.  writes counts the invocations of response.end    *)
(* and response.json; sent is the status code that went out with the      *)
(* first of them (0 while nothing was sent).                               *)
(***************************************************************************)
StatusOK == 200

StatusUserError == 400

StatusInternalError == 500

NoBody == [kind |-> "none", items |-> {}]

NewResponse ==
    [statusCode |-> StatusOK, statusMessage |-> "", writes |-> 0, sent |-> 0,
     body |-> NoBody]

End(response) ==
    [response EXCEPT !.writes = @ + 1,
                     !.sent = IF response.writes = 0 THEN response.statusCode ELSE @]

Json(response, body) ==
    [End(response) EXCEPT !.body = IF response.writes = 0 THEN body ELSE @]

internalError(response, error) ==
    End([response EXCEPT !.statusCode = StatusInternalError,
                         !.statusMessage = "Internal Error."])

userError(response, error) ==
    End([response EXCEPT !.statusCode = StatusUserError,
                         !.statusMessage = error])

(***************************************************************************)
(* The validators: each returns the validated value (Undefined when the   *)
(* field is rejected) and the response object as it leaves it.            *)
(***************************************************************************)
getValidateName(request, response) ==
    LET name == request.body.name
    IN IF ~Truthy(name)
       THEN [value |-> Undefined,
             response |-> userError(response, "name was undefined.")]
       ELSE IF name.type # "string" \/ Len(name.chars) = 0
       THEN [value |-> Undefined,
             response |-> userError(response, "name was not a string or was empty.")]
       ELSE [value |-> name, response |-> response]

getValidatedQuantity(request, response) ==
    LET quantity == request.body.quantity
    IN IF ~Truthy(quantity)
       THEN [value |-> Undefined,
             response |-> userError(response, "quantity was undefined.")]
       ELSE IF quantity.type # "number" \/ LessThanOne(quantity)
       THEN [value |-> Undefined,
             response |-> userError(response,
                            "quantity was not a number or was less than 1.")]
       ELSE [value |-> quantity, response |-> response]

getValidatedExpiration(request, response) ==
    LET expiration == request.body.expiration
    IN IF ~Truthy(expiration)
       THEN [value |-> Undefined,
             response |-> userError(response, "expiration was undefined.")]
       ELSE IF expiration.type # "string"
               \/ ~RegexTest(EXPIRATION_REGEX, expiration.chars)
       THEN [value |-> Undefined,
             response |-> userError(response,
                            "expiration date was not a string or it was not of the format YYYY-MM-DD.")]
       ELSE [value |-> expiration, response |-> response]

getValidatedId(request, response) ==
    LET id == request.params.id
    IN IF Len(id) = 0
       THEN [value |-> Undefined,
             response |-> userError(response, "id was undefined.")]
       ELSE IF isNaN(parseInt(id))
       THEN [value |-> Undefined,
             response |-> userError(response, "id was not a number.")]
       ELSE [value |-> parseInt(id), response |-> response]

(***************************************************************************)
(* Requests.  A context is what a handler's closures hold: the request,   *)
(* the response object, and history fields recording what the request did *)
(* (phase, the statements it issued, the rows its statements added and    *)
(* removed, whether its existence statement ran on a table holding a row  *)
(* with its id, whether one of its statements failed).                     *)
(***************************************************************************)
EmptyBody == [name |-> Undefined, quantity |-> Undefined, expiration |-> Undefined]

NewContext(route, body, idParam) ==
    [route |-> route, body |-> body, idParam |-> idParam, id |-> Undefined,
     response |-> NewResponse, phase |-> "running", stmts |-> <<>>,
     added |-> {}, removed |-> {}, rowPresent |-> FALSE, dbFailed |-> FALSE]

NoRequest == [NewContext("none", EmptyBody, <<>>) EXCEPT !.phase = "none"]

\* the object {name, quantity, expiration, id}; val is unused
Item(name, quantity, expiration, id) ==
    [type |-> "object", name |-> name, quantity |-> quantity,
     expiration |-> expiration, id |-> id, val |-> Undefined]

\* a number used where an item is expected: every property of it is undefined
NumberItem(n) ==
    [type |-> "number", name |-> Undefined, quantity |-> Undefined,
     expiration |-> Undefined, id |-> Undefined, val |-> n]

\* the JSON of an item object
ItemJson(item) ==
    [id |-> item.id, name |-> item.name, quantity |-> item.quantity,
     expiration |-> item.expiration]

\* db.query(statement, params, callback): the entry put on the client's queue
Query(stmt, params, item, ctx) ==
    [stmt |-> stmt, params |-> params, item |-> item,
     ctx |-> [ctx EXCEPT !.stmts = Append(@, stmt)]]

(***************************************************************************)
(* The database: the PANTRY table holds the values the statements bind.   *)
(* An undefined parameter is bound as NULL, which equals no ID.           *)
(***************************************************************************)
DbInsert(tbl, nid, params) ==
    [table |-> tbl \cup {[id |-> Num(nid, 1), name |-> params[1],
                          expiration |-> params[2], quantity |-> params[3]]},
     nextId |-> nid + 1,
     rows |-> <<[id |-> Num(nid, 1)]>>]

DbCount(tbl, nid, params) ==
    [table |-> tbl, nextId |-> nid,
     rows |-> <<Obj(Cardinality({r \in tbl : r.id = params[1]}))>>]

DbUpdate(tbl, nid, params) ==
    [table |-> {IF r.id = params[4]
                THEN [r EXCEPT !.name = params[1], !.expiration = params[2],
                               !.quantity = params[3]]
                ELSE r : r \in tbl},
     nextId |-> nid, rows |-> <<>>]

DbDelete(tbl, nid, params) ==
    [table |-> {r \in tbl : r.id # params[1]}, nextId |-> nid, rows |-> <<>>]

DbSelect(tbl, nid, params) ==
    [table |-> tbl, nextId |-> nid, rows |-> tbl]

DbExec(tbl, nid, stmt, params) ==
    CASE stmt = "insert" -> DbInsert(tbl, nid, params)
      [] stmt = "count" -> DbCount(tbl, nid, params)
      [] stmt = "update" -> DbUpdate(tbl, nid, params)
      [] stmt = "delete" -> DbDelete(tbl, nid, params)
      [] OTHER -> DbSelect(tbl, nid, params)

(***************************************************************************)
(* Date.prototype.toLocaleDateString of the date a stored expiration      *)
(* denotes (en-US: M/D/YYYY); a value that is no date gives Invalid Date. *)
(***************************************************************************)
StripZero(s) == IF Head(s) = "0" THEN Tail(s) ELSE s

toLocaleDateString(s) ==
    IF Len(s) = Len(EXPIRATION_REGEX) /\ MatchAt(EXPIRATION_REGEX, s, 1)
    THEN StripZero(SubSeq(s, 6, 7)) \o <<"/">> \o StripZero(SubSeq(s, 9, 10))
         \o <<"/">> \o SubSeq(s, 1, 4)
    ELSE <<"I", "n", "v", "a", "l", "i", "d", " ", "D", "a", "t", "e">>

dateObjectToString(item) ==
    [item EXCEPT !.expiration = Str(toLocaleDateString(item.expiration.chars))]

(***************************************************************************)
(* What running a query's callback produces: the queries it issues, the   *)
(* context of the request if the request is over, and whether an          *)
(* exception left the callback uncaught (which ends the process).         *)
(***************************************************************************)
Finished(ctx) == [enqueue |-> <<>>, finished |-> <<[ctx EXCEPT !.phase = "calledback"]>>,
                  crashed |-> FALSE]

Thrown(ctx) == [enqueue |-> <<>>, finished |-> <<[ctx EXCEPT !.phase = "thrown"]>>,
                crashed |-> TRUE]

Issued(q) == [enqueue |-> <<q>>, finished |-> <<>>, crashed |-> FALSE]

\* app.get('/') callback
listCallback(ctx, err, items) ==
    IF Truthy(err)
    THEN Finished([ctx EXCEPT !.response = internalError(ctx.response, err)])
    ELSE Finished([ctx EXCEPT !.response =
                      Json(ctx.response, [kind |-> "list", items |-> items])])

\* app.post('/') callback
createCallback(ctx, err, item) ==
    IF Truthy(err)
    THEN Finished([ctx EXCEPT !.response = internalError(ctx.response, err)])
    ELSE Finished([ctx EXCEPT !.response =
                      Json(ctx.response, [kind |-> "item", items |-> {ItemJson(item)}])])

\* mutateCallback without its test of result.present
mutateCallback_presentUnchecked(ctx, err, result) ==
    IF Truthy(err)
    THEN Finished([ctx EXCEPT !.response = internalError(ctx.response, err)])
    ELSE Finished([ctx EXCEPT !.response =
                      Json(ctx.response, [kind |-> "undefined", items |-> {}])])

\* app.delete('/:id') and app.post('/:id') callbacks; result is the pair of
\* result.present and result.item
mutateCallback(ctx, err, result) ==
    IF Truthy(err)
    THEN Finished([ctx EXCEPT !.response = internalError(ctx.response, err)])
    ELSE IF ~Truthy(result.present)
    THEN Finished([ctx EXCEPT !.response =
                      userError(ctx.response, "Item with id not found.")])
    ELSE Finished([ctx EXCEPT !.response =
                      Json(ctx.response,
                           IF result.item.type = "undefined"
                           THEN [kind |-> "undefined", items |-> {}]
                           ELSE [kind |-> "item", items |-> {ItemJson(result.item)}])])

\* {present: false, item: undefined}
NotPresent == [present |-> Bool(FALSE), item |-> Undefined]

\* an item object or a number passed as the result: it has no property
\* named present or item
AsResult(item) == [present |-> Undefined, item |-> Undefined]

\* insertItem binding its parameters in the order NAME, QUANTITY, EXPIRATION
insertItem_paramsSwapped(item, ctx) ==
    Query("insert", <<item.name, item.quantity, item.expiration>>, item, ctx)

\* insertItem: the statement and the callback given to db.query
insertItem(item, ctx) ==
    Query("insert", <<item.name, item.expiration, item.quantity>>, item, ctx)

insertItemCallback(q, err, result) ==
    IF ~result.defined THEN Thrown(q.ctx)
    ELSE createCallback(q.ctx, err, [q.item EXCEPT !.id = result.rows[1].id])

\* itemExists: its statement; next names the statement of the caller
itemExists(item, ctx) == Query("count", <<item.id>>, item, ctx)

\* the continuation updateItem and deleteItem give to itemExists
existsContinuation(q, exists) ==
    IF ~exists THEN mutateCallback(q.ctx, Undefined, NotPresent)
    ELSE IF q.ctx.route = "update"
    THEN Issued(Query("update",
                      <<q.item.name, q.item.expiration, q.item.quantity, q.item.id>>,
                      q.item, q.ctx))
    ELSE Issued(Query("delete", <<q.item.id>>, q.item, q.ctx))

itemExistsCallback(q, err, result) ==
    IF ~result.defined THEN Thrown(q.ctx)
    ELSE existsContinuation(q, StrictEquals(result.rows[1], Num(1, 1)))

updateItem(item, ctx) == itemExists(item, ctx)

deleteItem(item, ctx) == itemExists(item, ctx)

\* the callback of the UPDATE and of the DELETE statement
mutationCallback(q, err, result) == mutateCallback(q.ctx, err, AsResult(q.item))

getItems(ctx) == Query("select", <<>>, NumberItem(Undefined), ctx)

getItemsCallback(q, err, result) ==
    IF ~result.defined THEN Thrown(q.ctx)
    ELSE listCallback(q.ctx, err, {dateObjectToString(r) : r \in result.rows})

(***************************************************************************)
(* The requests the model sends.                                           *)
(***************************************************************************)
Rice == <<"R", "i", "c", "e">>

DateExact == <<"2", "0", "2", "5", "-", "0", "1", "-", "0", "1">>

\* a date with a character before it
DatePadded == <<"a">> \o DateExact

\* a date with one-digit month and day
DateShort == <<"2", "0", "2", "5", "-", "1", "-", "1">>

ReferenceBody ==
    [name |-> Str(Rice), quantity |-> Num(1, 1), expiration |-> Str(DateExact)]

\* the reference body with field f replaced by v
With(f, v) == [ReferenceBody EXCEPT ![f] = v]

\* the bodies POST / is sent: the reference body; the reference body with one
\* field replaced; bodies with two and with three fields missing
CreateBodies ==
    {ReferenceBody, EmptyBody, [EmptyBody EXCEPT !.expiration = Str(DateExact)]}
    \cup {With("name", v) : v \in {Undefined, Num(7, 1)}}
    \cup {With("quantity", v) :
             v \in {Undefined, Num(0, 1), Num(-1, 1), Num(3, 2), Str(<<"2">>)}}
    \cup {With("expiration", v) :
             v \in {Undefined, Str(DatePadded), Str(DateShort), Num(5, 1)}}

\* the bodies POST /:id is sent
UpdateBodies ==
    {ReferenceBody, With("quantity", Num(3, 2)), With("quantity", Num(0, 1)),
     EmptyBody}

IdParams == {<<"1">>, <<"0">>, <<"a">>}

\* the INSERT statements waiting on the client's queue
PendingInserts == Cardinality({i \in 1..Len(queue) : queue[i].stmt = "insert"})

CanQueue == Len(queue) < MaxInFlight

CanInsert == CanQueue /\ (nextId - 1) + PendingInserts < MaxRows

\* the handler returned at its guard: the request is over
Returned(ctx) == [ctx EXCEPT !.phase = "returned"]

Init ==
    /\ table = {}
    /\ nextId = 1
    /\ queue = <<>>
    /\ last = NoRequest
    /\ crashed = FALSE

\* GET /
Get ==
    /\ ~crashed
    /\ CanQueue
    /\ queue' = Append(queue, getItems(NewContext("list", EmptyBody, <<>>)))
    /\ UNCHANGED <<table, nextId, last, crashed>>

\* POST /
PostRoot ==
    /\ ~crashed
    /\ \E body \in CreateBodies :
          LET request == [body |-> body, params |-> [id |-> <<>>]]
              ctx == NewContext("create", body, <<>>)
              name == getValidateName(request, ctx.response)
              quantity == getValidatedQuantity(request, name.response)
              expiration == getValidatedExpiration(request, quantity.response)
              ctx1 == [ctx EXCEPT !.response = expiration.response]
          IN IF ~Truthy(name.value) \/ ~Truthy(quantity.value)
                \/ ~Truthy(expiration.value)
             THEN /\ last' = Returned(ctx1)
                  /\ UNCHANGED <<table, nextId, queue, crashed>>
             ELSE /\ CanInsert
                  /\ queue' = Append(queue,
                        insertItem(Item(name.value, quantity.value,
                                        expiration.value, Undefined), ctx1))
                  /\ UNCHANGED <<table, nextId, last, crashed>>

\* DELETE /:id
Delete ==
    /\ ~crashed
    /\ \E idParam \in IdParams :
          LET request == [body |-> EmptyBody, params |-> [id |-> idParam]]
              ctx == NewContext("delete", EmptyBody, idParam)
              id == getValidatedId(request, ctx.response)
              ctx1 == [ctx EXCEPT !.response = id.response, !.id = id.value]
          IN IF ~Truthy(id.value)
             THEN /\ last' = Returned(ctx1)
                  /\ UNCHANGED <<table, nextId, queue, crashed>>
             ELSE /\ CanQueue
                  /\ queue' = Append(queue, deleteItem(NumberItem(id.value), ctx1))
                  /\ UNCHANGED <<table, nextId, last, crashed>>

\* POST /:id
PostId ==
    /\ ~crashed
    /\ \E body \in UpdateBodies, idParam \in IdParams :
          LET request == [body |-> body, params |-> [id |-> idParam]]
              ctx == NewContext("update", body, idParam)
              name == getValidateName(request, ctx.response)
              quantity == getValidatedQuantity(request, name.response)
              expiration == getValidatedExpiration(request, quantity.response)
              id == getValidatedId(request, expiration.response)
              ctx1 == [ctx EXCEPT !.response = id.response, !.id = id.value]
          IN IF ~Truthy(name.value) \/ ~Truthy(quantity.value)
                \/ ~Truthy(expiration.value) \/ ~Truthy(id.value)
             THEN /\ last' = Returned(ctx1)
                  /\ UNCHANGED <<table, nextId, queue, crashed>>
             ELSE /\ CanQueue
                  /\ queue' = Append(queue,
                        updateItem(Item(name.value, quantity.value,
                                        expiration.value, id.value), ctx1))
                  /\ UNCHANGED <<table, nextId, last, crashed>>

\* The database client finishes the statement at the head of its queue, with
\* a result or with an error, and runs the callback given to db.query.
QueryCallback ==
    /\ ~crashed
    /\ queue # <<>>
    /\ \E failed \in BOOLEAN :
          LET q0 == Head(queue)
              err == IF failed THEN Obj(0) ELSE Undefined
              exec == DbExec(table, nextId, q0.stmt, q0.params)
              result == IF failed
                        THEN [defined |-> FALSE, rows |-> <<>>]
                        ELSE [defined |-> TRUE, rows |-> exec.rows]
              after == IF failed THEN [table |-> table, nextId |-> nextId]
                       ELSE [table |-> exec.table, nextId |-> exec.nextId]
              q == [q0 EXCEPT
                      !.ctx.added = @ \cup (after.table \ table),
                      !.ctx.removed = @ \cup (table \ after.table),
                      !.ctx.dbFailed = @ \/ failed,
                      !.ctx.rowPresent =
                          IF q0.stmt = "count"
                          THEN \E r \in table : r.id = q0.ctx.id
                          ELSE @]
              out == CASE q.stmt = "insert" -> insertItemCallback(q, err, result)
                       [] q.stmt = "count" -> itemExistsCallback(q, err, result)
                       [] q.stmt = "select" -> getItemsCallback(q, err, result)
                       [] OTHER -> mutationCallback(q, err, result)
          IN /\ table' = after.table
             /\ nextId' = after.nextId
             /\ queue' = Tail(queue) \o out.enqueue
             /\ last' = IF out.finished = <<>> THEN last ELSE out.finished[1]
             /\ crashed' = out.crashed

Next == Get \/ PostRoot \/ Delete \/ PostId \/ QueryCallback

Spec == Init /\ [][Next]_vars

(***************************************************************************)
(* Properties.  They speak of last, the request the latest callback or     *)
(* handler finished, and of the requests still on the queue.                *)
(***************************************************************************)
\* exactly four digits, dash, two digits, dash, two digits
IsExactDate(v) ==
    /\ v.type = "string"
    /\ Len(v.chars) = Len(EXPIRATION_REGEX)
    /\ MatchAt(EXPIRATION_REGEX, v.chars, 1)

IsIntegerAtLeastOne(v) ==
    v.type = "number" /\ v.den # 0 /\ v.num >= v.den /\ v.num % v.den = 0

\* a non-empty string name, a numeric quantity >= 1, an expiration YYYY-MM-DD
ValidBody(b) ==
    /\ b.name.type = "string" /\ Len(b.name.chars) > 0
    /\ b.quantity.type = "number" /\ b.quantity.den # 0
    /\ ~LessThanOne(b.quantity)
    /\ IsExactDate(b.expiration)

\* a field is missing, or quantity < 1, or the expiration is no string or is
\* not of the shape YYYY-MM-DD
RejectableBody(b) ==
    \/ b.name = Undefined \/ b.quantity = Undefined \/ b.expiration = Undefined
    \/ (b.quantity.type = "number" /\ LessThanOne(b.quantity))
    \/ ~IsExactDate(b.expiration)

Over(c) == c.phase \in {"returned", "calledback", "thrown"}

SubmittedItem(c, id) ==
    [id |-> id, name |-> c.body.name, quantity |-> c.body.quantity,
     expiration |-> c.body.expiration]

\* an update or delete that is valid but for the existence of its row
OtherwiseValid(c) ==
    /\ c.route \in {"update", "delete"}
    /\ c.route = "update" => ValidBody(c.body)
    /\ ~isNaN(parseInt(c.idParam))

\* C1: a valid POST /:id whose id is present in the table, with no database
\* error, is answered 200 with the submitted values and leaves the row with
\* its id holding them.
C1_UpdateOverwritesRow ==
    (/\ last.route = "update" /\ last.phase = "calledback"
     /\ ValidBody(last.body) /\ last.rowPresent /\ ~last.dbFailed)
    => /\ last.response.sent = StatusOK
       /\ last.response.body = [kind |-> "item", items |-> {SubmittedItem(last, last.id)}]
       /\ SubmittedItem(last, last.id) \in last.added

\* C2: a DELETE /:id whose id is present in the table, with no database
\* error, is answered 200 and removes the row with that id.
C2_DeleteRemovesRow ==
    (/\ last.route = "delete" /\ last.phase = "calledback"
     /\ last.rowPresent /\ ~last.dbFailed)
    => /\ last.response.sent = StatusOK
       /\ \E r \in last.removed : r.id = last.id

C4_AtMostOneResponse ==
    /\ last.response.writes <= 1
    /\ \A i \in 1..Len(queue) : queue[i].ctx.response.writes <= 1

\* C5: a POST / whose body misses a field, or has quantity < 1, or has an
\* expiration that is no string or not of the shape YYYY-MM-DD, is answered
\* 400 and issues no statement.
C5_InvalidCreateRejected ==
    /\ (last.route = "create" /\ Over(last) /\ RejectableBody(last.body))
       => /\ last.response.sent = StatusUserError
          /\ last.stmts = <<>> /\ last.added = {}
    /\ \A i \in 1..Len(queue) :
          queue[i].ctx.route = "create" => ~RejectableBody(queue[i].ctx.body)

\* C6: a valid POST / whose INSERT does not fail is answered 200, once, with
\* an integer id and exactly the submitted name, quantity and expiration, and
\* its one statement added exactly one row, holding those values.
C6_CreateEchoesAndInserts ==
    (/\ last.route = "create" /\ Over(last)
     /\ ValidBody(last.body) /\ ~last.dbFailed)
    => /\ last.phase = "calledback"
       /\ last.response.sent = StatusOK /\ last.response.writes = 1
       /\ last.stmts = <<"insert">>
       /\ last.removed = {}
       /\ \E n \in 1..MaxRows :
             /\ last.response.body =
                   [kind |-> "item", items |-> {SubmittedItem(last, Num(n, 1))}]
             /\ last.added = {SubmittedItem(last, Num(n, 1))}

C6_Witness ==
    /\ last.route = "create" /\ last.phase = "calledback"
    /\ last.body = ReferenceBody /\ ~last.dbFailed
    /\ last.response.sent = StatusOK
    /\ table # {}

\* C7: a request one of whose database calls failed is answered 500 by its
\* handler's callback.
C7_DbFailureAnswers500 ==
    (Over(last) /\ last.dbFailed)
    => /\ last.phase = "calledback"
       /\ last.response.sent = StatusInternalError

\* C8: a handler that stops at its guard has already written a response.
C8_StoppedAfterResponse ==
    last.phase = "returned" => last.response.writes >= 1

\* C9: the existence check of an update or delete that runs while the row is
\* in the table sees the row, so that the request goes on to issue its UPDATE
\* or DELETE statement, which is the step a concurrent DELETE can overtake.
C9_CheckSeesRowThenMutates ==
    (/\ last.route \in {"update", "delete"} /\ last.phase = "calledback"
     /\ last.rowPresent /\ ~last.dbFailed)
    => /\ Len(last.stmts) = 2
       /\ last.stmts[1] = "count"
       /\ last.stmts[2] = last.route

\* C10: every row has an id, a non-empty string name, an integer quantity
\* >= 1 and an expiration of exactly the shape YYYY-MM-DD.
C10_RowsWellFormed ==
    \A r \in table :
        /\ r.id.type = "number"
        /\ r.name.type = "string" /\ Len(r.name.chars) > 0
        /\ IsIntegerAtLeastOne(r.quantity)
        /\ IsExactDate(r.expiration)

====
